---- MODULE Spec2Model ----
(***************************************************************************)
(* Model of scripts/export_census_data.py: the Census export script.       *)
(*                                                                         *)
(* The script is one sequential process.  Its state is the interpreter's   *)
(* position (pc), the locals of main / export_census_data /                *)
(* fetch_paginated, and the environment it acts on: the HTTP requests it   *)
(* has issued and the responses it has received, the remote server, the    *)
(* file system, the two output streams and the exit status.                *)
(*                                                                         *)
(* Optional values (Python's None) are sequences of length at most one:    *)
(* None is <<>> and a value v is <<v>>.                                    *)
(***************************************************************************)
EXTENDS Naturals, Sequences, FiniteSets, TLC

VARIABLES
    mode,          \* "main": the script is run; "direct": fetch_paginated is called on its own
    pc,            \* position of the process
    hasRequests,   \* whether `import requests` succeeds
    argKey,        \* the --api-key flag (None when not given)
    envKey,        \* the CENSUS_API_KEY environment variable (None when unset)
    outputPath,    \* the --output flag (its default when not given)
    api_key,       \* args.api_key, and fetch_paginated's api_key
    endpoint,      \* fetch_paginated: endpoint
    params,        \* fetch_paginated: params
    url,           \* fetch_paginated: url
    page,          \* fetch_paginated: page
    all_data,      \* fetch_paginated: all_data
    headers,       \* fetch_paginated: headers
    inflight,      \* the HTTP requests issued and not yet answered
    requests,      \* every HTTP request issued so far, in order
    received,      \* every outcome of requests.get so far, in order
    server,        \* what the remote server answers for each URL, once asked
    syncs,         \* export_census_data: syncs
    sources,       \* export_census_data: sources
    destinations,  \* export_census_data: destinations
    dirs,          \* file system: the directories that exist
    files,         \* file system: the content of each path (None when no file)
    stdout,        \* lines printed to the standard output stream
    stderr,        \* lines printed to the standard error stream
    exitCode,      \* the process's exit status (None while it runs)
    error,         \* the exception raised out of the export (None when none)
    result         \* direct call: the value fetch_paginated returned

inputVars == <<mode, hasRequests, argKey, envKey, outputPath>>
fetchVars == <<endpoint, params, url, page, all_data, headers>>
netVars   == <<inflight, requests, received, server>>
dataVars  == <<syncs, sources, destinations>>
fsVars    == <<dirs, files>>
vars == <<mode, pc, hasRequests, argKey, envKey, outputPath, api_key,
          endpoint, params, url, page, all_data, headers,
          inflight, requests, received, server,
          syncs, sources, destinations, dirs, files,
          stdout, stderr, exitCode, error, result>>

----------------------------------------------------------------------------
(* Python values *)

None == <<>>

Some(v) == <<v>>

\* Truth value of an Optional[str]: None and "" are false.
Truthy(o) == o # None /\ o[1] # ""

----------------------------------------------------------------------------
(* Bounds of the model *)

\* Number of distinct continuation URLs the server may hand out in `next`.
MaxCont == 2

\* HTTP requests one run may issue.
MaxRequests == 3

----------------------------------------------------------------------------
(* Constants of the script *)

CENSUS_API_BASE == "https://app.getcensus.com/api/v1"

\* Variant: sources are fetched before syncs.
EndpointOrderSourcesFirst == <<"sources", "syncs", "destinations">>

\* The endpoints export_census_data fetches, in the order it fetches them.
EndpointOrder == <<"syncs", "sources", "destinations">>

Endpoints == {EndpointOrder[i] : i \in 1..Len(EndpointOrder)}

\* url = f"{CENSUS_API_BASE}/{endpoint}"
InitialURL(ep) == CENSUS_API_BASE \o "/" \o ep

\* headers = {"Authorization": f"Bearer {api_key}", "Content-Type": ...}
Headers(key) == [Authorization |-> "Bearer " \o key,
                 ContentType   |-> "application/json"]

NoHeaders == [Authorization |-> "", ContentType |-> ""]

\* parser.add_argument("--output", default="data/census.json").  A path is
\* kept as its directory part and its file name.
DefaultOutput == [dir |-> "data", name |-> "census.json"]

\* os.path.dirname(output_path)
Dirname(path) == path.dir

----------------------------------------------------------------------------
(* The environment: inputs, remote server, file system *)

ApiKeys == {"key-A", "key-B"}

\* --api-key: not given, given empty, given.
ArgKeys == {None, Some(""), Some("key-A")}

\* CENSUS_API_KEY: unset, set empty, set.
EnvKeys == {None, Some(""), Some("key-B")}

OutputPaths == {DefaultOutput, [dir |-> "", name |-> "out.json"]}

QueryParams == {None, Some("per_page=2")}

\* URLs the server may put in `next`.
ContURLs == {CENSUS_API_BASE \o "/cursor/" \o ToString(i) : i \in 1..MaxCont}

URLs == {InitialURL(ep) : ep \in Endpoints} \cup ContURLs

\* The `data` arrays a page may hold (records are opaque).
PageData == {<<>>, <<"rec-1">>, <<"rec-1", "rec-2">>}

\* The `next` field of a page: absent (or null), empty, or a URL.
NextValues == {None, Some("")} \cup {Some(u) : u \in ContURLs}

\* A decoded JSON body: has_data tells whether the key `data` is present.
EmptyJson == [has_data |-> FALSE, data |-> <<>>, next |-> None]

JsonBodies ==
    {[has_data |-> TRUE, data |-> d, next |-> n] : d \in PageData, n \in NextValues}
    \cup {[has_data |-> FALSE, data |-> <<>>, next |-> n] : n \in NextValues}

ErrorStatuses == {401, 403, 500}

\* The error responses carry one of two raw bodies: "body-A", which is not
\* JSON, and "body-B", which is.
ErrorJson == [has_data |-> TRUE, data |-> <<"rec-1">>, next |-> None]

\* What requests.get can come back with: a transport failure (arrived is
\* FALSE), or a response with a status, a raw body (text) and, when the body
\* is JSON (json_ok), its decoding.
Outcome(arrived, status, text, json_ok, json) ==
    [arrived |-> arrived, status |-> status, text |-> text,
     json_ok |-> json_ok, json |-> json]

Outcomes ==
    {Outcome(TRUE, 200, "json", TRUE, j) : j \in JsonBodies}
    \cup {Outcome(TRUE, 200, "not json", FALSE, EmptyJson)}
    \cup {Outcome(TRUE, s, "body-A", FALSE, EmptyJson) : s \in ErrorStatuses}
    \cup {Outcome(TRUE, s, "body-B", TRUE, ErrorJson) : s \in ErrorStatuses}
    \cup {Outcome(FALSE, 0, "", FALSE, EmptyJson)}

\* The document the script writes, and a document of an earlier export.
Document(s, c, meta) == [syncs |-> s, connections |-> c, metadata |-> meta]

Metadata(at, nSyncs, nSources, nDestinations, nConnections) ==
    [exportedAt |-> at, syncCount |-> nSyncs, sourceCount |-> nSources,
     destinationCount |-> nDestinations, connectionCount |-> nConnections,
     exportedBy |-> "export_census_data.py"]

OldDocument == Document(<<"rec-old">>, <<>>, Metadata("earlier", 1, 0, 0, 0))

\* datetime.now(timezone.utc).isoformat()
Timestamps == {"2026-01-01T00:00:00+00:00", "2026-01-02T00:00:00+00:00"}

\* The file system before the run: empty, or holding the output directory
\* and an earlier export at every output path.
EmptyFS == [dirs |-> {}, files |-> [p \in OutputPaths |-> None]]

PopulatedFS == [dirs  |-> {"data"},
                files |-> [p \in OutputPaths |-> Some(OldDocument)]]

FileSystems == {EmptyFS, PopulatedFS}

----------------------------------------------------------------------------
(* Pure steps of the script *)

\* argparse: --api-key with default=os.environ.get("CENSUS_API_KEY").
ResolveApiKey(flag, env) == IF flag # None THEN flag ELSE env

\* Variant: only an absent key is rejected, an empty one is accepted.
KeyIsNone(key) == key = None

\* `if not args.api_key:`
KeyMissing(key) == ~Truthy(key)

\* Variant: only 401 and 403 are checked; other statuses pass as 200 does.
StatusErrorAuthOnly(status, text) ==
    IF status = 401
      THEN Some("Authentication failed. Check your API key.")
    ELSE IF status = 403
      THEN Some("Access forbidden. Your API key may not have permission for this endpoint.")
    ELSE None

\* Variant: 403 is reported as 401 is.
StatusErrorForbiddenAsAuth(status, text) ==
    IF status = 401 \/ status = 403
      THEN Some("Authentication failed. Check your API key.")
    ELSE IF status # 200
      THEN Some("API request failed with status " \o ToString(status) \o ": " \o text)
    ELSE None

\* The status checks on a response: the message of the exception raised, or
\* None when the status is 200.
StatusError(status, text) ==
    IF status = 401
      THEN Some("Authentication failed. Check your API key.")
    ELSE IF status = 403
      THEN Some("Access forbidden. Your API key may not have permission for this endpoint.")
    ELSE IF status # 200
      THEN Some("API request failed with status " \o ToString(status) \o ": " \o text)
    ELSE None

\* Variant: the query parameters are sent with every page.
RequestParamsAlways(pg, prm) == prm

\* params=params if page == 1 else None
RequestParams(pg, prm) == IF pg = 1 THEN prm ELSE None

\* items = data.get("data", [])
GetData(json) == IF json.has_data THEN json.data ELSE <<>>

\* next_url = data.get("next")
GetNext(json) == json.next

\* Variant: a page's items are put in front of the earlier ones.
ExtendInFront(acc, items) == items \o acc

\* all_data.extend(items)
Extend(acc, items) == acc \o items

\* Variant: the `next` URL is never followed.
NextUrlIgnored(next_url) == None

\* `if next_url: url = next_url else: url = None`
NextUrl(next_url) == IF Truthy(next_url) THEN next_url ELSE None

\* `while url:`
LoopContinues(u) == Truthy(u)

\* Variant: destinations are put before sources.
MergeDestinationsFirst(srcs, dsts) == dsts \o srcs

\* connections = sources + destinations
Merge(srcs, dsts) == srcs \o dsts

\* Variant: connectionCount counts the sources only.
BuildMetadataSourcesOnly(at, syn, srcs, dsts, conns) ==
    Metadata(at, Len(syn), Len(srcs), Len(dsts), Len(srcs))

\* The "_metadata" block of the output.
BuildMetadata(at, syn, srcs, dsts, conns) ==
    Metadata(at, Len(syn), Len(srcs), Len(dsts), Len(conns))

\* The line fetch_syncs / fetch_sources / fetch_destinations prints.
FetchBanner(ep) ==
    CASE ep = "syncs"        -> "\nFetching syncs..."
      [] ep = "sources"      -> "\nFetching sources (where data comes FROM)..."
      [] ep = "destinations" -> "\nFetching destinations (where data goes TO)..."

\* "=" * 60
Rule == "============================================================"

\* The lines export_census_data prints before it fetches.
ExportBanner == <<Rule, "Census Data Export", Rule>>

\* The lines main prints when no API key is given.
MissingKeyLines ==
    <<"Error: Census API key is required.",
      "Provide it via --api-key argument or CENSUS_API_KEY environment variable.",
      "\nGet your API key from: https://app.getcensus.com/settings/api">>

ImportErrorLine ==
    "Error: 'requests' library is required. Install it with: pip install requests"

\* os.path.abspath(output_path), the script being run in /work.
Abspath(path) ==
    "/work/" \o (IF path.dir = "" THEN path.name ELSE path.dir \o "/" \o path.name)

\* The lines export_census_data prints after it wrote the file.
SummaryLines(syn, srcs, dsts, path) ==
    <<"\n" \o Rule, "Export Complete!", Rule,
      "  Syncs:        " \o ToString(Len(syn)),
      "  Sources:      " \o ToString(Len(srcs)) \o " (where data comes from)",
      "  Destinations: " \o ToString(Len(dsts)) \o " (where data goes to)",
      "  Output:       " \o Abspath(path),
      "\nNext steps:",
      "  1. Review the exported file to ensure it looks correct",
      "  2. Send the file to your teammate or commit it to the repo",
      "  3. Place it at data/census.json in the data-pipeline-visualizer repo">>

\* Position of an endpoint in the order export_census_data fetches them.
OrderOf(ep) == CHOOSE i \in 1..Len(EndpointOrder) : EndpointOrder[i] = ep

----------------------------------------------------------------------------
(* Initial states *)

\* The script is started: nothing has run yet.
Init ==
    /\ mode = "main"
    /\ pc = "import"
    /\ hasRequests \in BOOLEAN
    /\ argKey \in ArgKeys
    /\ envKey \in EnvKeys
    /\ outputPath \in OutputPaths
    /\ \E fs \in FileSystems : dirs = fs.dirs /\ files = fs.files
    /\ api_key = None
    /\ endpoint = "" /\ params = None /\ url = None /\ page = 0
    /\ all_data = <<>> /\ headers = NoHeaders
    /\ inflight = {} /\ requests = <<>> /\ received = <<>>
    /\ server = [u \in URLs |-> None]
    /\ syncs = None /\ sources = None /\ destinations = None
    /\ stdout = <<>> /\ stderr = <<>>
    /\ exitCode = None /\ error = None /\ result = None

\* fetch_paginated(endpoint, api_key, params) is called on its own and has
\* run up to its loop.
InitFetch ==
    /\ mode = "direct"
    /\ pc = "loop"
    /\ hasRequests = TRUE
    /\ argKey = None /\ envKey = None
    /\ outputPath = DefaultOutput
    /\ dirs = EmptyFS.dirs /\ files = EmptyFS.files
    /\ api_key \in {Some(k) : k \in ApiKeys}
    /\ endpoint \in Endpoints
    /\ params \in QueryParams
    /\ url = Some(InitialURL(endpoint))
    /\ page = 1
    /\ all_data = <<>>
    /\ headers = Headers(api_key[1])
    /\ inflight = {} /\ requests = <<>> /\ received = <<>>
    /\ server = [u \in URLs |-> None]
    /\ syncs = None /\ sources = None /\ destinations = None
    /\ stdout = <<>> /\ stderr = <<>>
    /\ exitCode = None /\ error = None /\ result = None

----------------------------------------------------------------------------
(* Steps *)

\* fetch_paginated up to its loop: all_data, url, headers, page.
StartFetch(ep, key, prm) ==
    /\ endpoint' = ep
    /\ params' = prm
    /\ url' = Some(InitialURL(ep))
    /\ page' = 1
    /\ all_data' = <<>>
    /\ headers' = Headers(key)

\* An exception leaves fetch_paginated and export_census_data.  In the
\* script main catches it: print(f"\nError: {e}", file=sys.stderr) and
\* sys.exit(1).  In a direct call it reaches the caller.
Raise(msg) ==
    /\ error' = Some(msg)
    /\ IF mode = "main"
         THEN /\ stderr' = Append(stderr, "\nError: " \o msg)
              /\ exitCode' = Some(1)
              /\ pc' = "exited"
         ELSE /\ pc' = "raised"
              /\ UNCHANGED <<stderr, exitCode>>

\* try: import requests / except ImportError: print(...); sys.exit(1)
ImportRequests ==
    /\ pc = "import"
    /\ IF hasRequests
         THEN /\ pc' = "main"
              /\ UNCHANGED <<stdout, exitCode>>
         ELSE /\ stdout' = Append(stdout, ImportErrorLine)
              /\ exitCode' = Some(1)
              /\ pc' = "exited"
    /\ UNCHANGED <<inputVars, api_key, fetchVars, netVars, dataVars, fsVars,
                   stderr, error, result>>

\* main, up to the first HTTP request: parse the arguments, validate the API
\* key, enter export_census_data and fetch_syncs.
Main ==
    /\ pc = "main"
    /\ api_key' = ResolveApiKey(argKey, envKey)
    /\ IF KeyMissing(api_key')
         THEN /\ stdout' = stdout \o MissingKeyLines
              /\ exitCode' = Some(1)
              /\ pc' = "exited"
              /\ UNCHANGED fetchVars
         ELSE /\ stdout' = stdout \o ExportBanner \o <<FetchBanner(EndpointOrder[1])>>
              /\ StartFetch(EndpointOrder[1], api_key'[1], None)
              /\ pc' = "loop"
              /\ UNCHANGED exitCode
    /\ UNCHANGED <<inputVars, netVars, dataVars, fsVars, stderr, error, result>>

\* `while url:` holds: print the progress line and call requests.get, which
\* sends the request and blocks.
SendRequest ==
    /\ pc = "loop"
    /\ LoopContinues(url)
    /\ Len(requests) < MaxRequests
    /\ LET req == [endpoint |-> endpoint, page |-> page, url |-> url[1],
                   params |-> RequestParams(page, params), headers |-> headers]
       IN  /\ requests' = Append(requests, req)
           /\ inflight' = inflight \cup {req}
    /\ stdout' = Append(stdout, "  Fetching " \o endpoint \o " (page " \o ToString(page) \o ")... ")
    /\ pc' = "await"
    /\ UNCHANGED <<inputVars, api_key, fetchVars, received, server, dataVars,
                   fsVars, stderr, exitCode, error, result>>

\* requests.get comes back: the status checks, response.json(), the page's
\* items, the next URL.  The server answers a URL it was asked before as it
\* did then.
ReceiveResponse ==
    /\ pc = "await"
    /\ \E o \in Outcomes :
        /\ server[url[1]] \in {None, Some(o)}
        /\ server' = [server EXCEPT ![url[1]] = Some(o)]
        /\ received' = Append(received, [endpoint |-> endpoint, page |-> page,
                                         url |-> url[1], outcome |-> o])
        /\ inflight' = {}
        /\ IF ~o.arrived
             THEN /\ Raise("ConnectionError")
                  /\ UNCHANGED <<fetchVars, stdout>>
           ELSE IF StatusError(o.status, o.text) # None
             THEN /\ Raise(StatusError(o.status, o.text)[1])
                  /\ UNCHANGED <<fetchVars, stdout>>
           ELSE IF ~o.json_ok
             THEN /\ Raise("JSONDecodeError")
                  /\ UNCHANGED <<fetchVars, stdout>>
           ELSE LET items    == GetData(o.json)
                    next_url == GetNext(o.json)
                IN  /\ all_data' = Extend(all_data, items)
                    /\ stdout' = Append(stdout, "got " \o ToString(Len(items)) \o " items")
                    /\ url' = NextUrl(next_url)
                    /\ page' = IF Truthy(next_url) THEN page + 1 ELSE page
                    /\ pc' = "loop"
                    /\ UNCHANGED <<endpoint, params, headers, stderr, exitCode, error>>
    /\ UNCHANGED <<inputVars, api_key, requests, dataVars, fsVars, result>>

\* `while url:` fails: return all_data.  In the script the caller keeps the
\* list and goes on to the next endpoint, or to the merge after the last.
FetchReturn ==
    /\ pc = "loop"
    /\ ~LoopContinues(url)
    /\ IF mode = "direct"
         THEN /\ result' = Some(all_data)
              /\ pc' = "returned"
              /\ UNCHANGED <<fetchVars, dataVars, stdout>>
         ELSE /\ syncs' = IF endpoint = "syncs" THEN Some(all_data) ELSE syncs
              /\ sources' = IF endpoint = "sources" THEN Some(all_data) ELSE sources
              /\ destinations' = IF endpoint = "destinations" THEN Some(all_data)
                                 ELSE destinations
              /\ IF OrderOf(endpoint) < Len(EndpointOrder)
                   THEN /\ StartFetch(EndpointOrder[OrderOf(endpoint) + 1], api_key[1], None)
                        /\ stdout' = Append(stdout,
                                        FetchBanner(EndpointOrder[OrderOf(endpoint) + 1]))
                        /\ pc' = "loop"
                   ELSE /\ pc' = "write"
                        /\ UNCHANGED <<fetchVars, stdout>>
              /\ UNCHANGED result
    /\ UNCHANGED <<inputVars, api_key, netVars, fsVars, stderr, exitCode, error>>

\* The rest of export_census_data: merge, build the document, create the
\* output directory when it is missing, write the file, print the summary;
\* then main returns.  os.makedirs and open may fail with an OSError.
WriteOutput ==
    /\ pc = "write"
    /\ \E at \in Timestamps, io \in {"ok", "makedirs fails", "open fails"} :
        LET connections == Merge(sources[1], destinations[1])
            output      == Document(syncs[1], connections,
                               BuildMetadata(at, syncs[1], sources[1],
                                             destinations[1], connections))
            output_dir  == Dirname(outputPath)
            create      == output_dir # "" /\ output_dir \notin dirs
            created     == IF create THEN <<"\nCreated directory: " \o output_dir>>
                           ELSE <<>>
        IN  /\ io = "makedirs fails" => create
            /\ dirs' = IF create /\ io # "makedirs fails"
                         THEN dirs \cup {output_dir} ELSE dirs
            /\ CASE io = "makedirs fails" ->
                      /\ Raise("OSError: makedirs")
                      /\ UNCHANGED <<files, stdout>>
                 [] io = "open fails" ->
                      /\ Raise("OSError: open")
                      /\ stdout' = stdout \o created
                      /\ UNCHANGED files
                 [] io = "ok" ->
                      /\ files' = [files EXCEPT ![outputPath] = Some(output)]
                      /\ stdout' = stdout \o created
                                    \o SummaryLines(syncs[1], sources[1],
                                                    destinations[1], outputPath)
                      /\ exitCode' = Some(0)
                      /\ pc' = "exited"
                      /\ UNCHANGED <<stderr, error>>
    /\ UNCHANGED <<inputVars, api_key, fetchVars, netVars, dataVars, result>>

Next ==
    \/ ImportRequests
    \/ Main
    \/ SendRequest
    \/ ReceiveResponse
    \/ FetchReturn
    \/ WriteOutput

\* The script, run from the command line.
Spec == Init /\ [][Next]_vars

NextFetch ==
    \/ SendRequest
    \/ ReceiveResponse
    \/ FetchReturn

\* One call of fetch_paginated.
FetchSpec == InitFetch /\ [][NextFetch]_vars

\* One call of fetch_paginated that keeps running and whose responses all
\* arrive.
FairFetchSpec == FetchSpec /\ WF_vars(NextFetch)

----------------------------------------------------------------------------
(* What the properties speak about, read off the request and response logs *)

\* The response was a page: it arrived with status 200 and a JSON body.
IsPage(o) == o.arrived /\ o.status = 200 /\ o.json_ok

\* The response arrived with a status other than 200.
IsNon200(o) == o.arrived /\ o.status # 200

\* The records in a page's `data` array (none when the page has no array).
PageItems(o) == IF o.json.has_data THEN o.json.data ELSE <<>>

\* `next` is absent or empty.
NextEmpty(o) == o.json.next = None \/ o.json.next = Some("")

\* A page with no `next`: the final page of its endpoint.
IsFinalPage(o) == IsPage(o) /\ NextEmpty(o)

\* A page with a `next` URL.
IsLinkPage(o) == IsPage(o) /\ ~NextEmpty(o)

\* The records of the first k responses that came from endpoint ep, in the
\* order received.
RECURSIVE RecordsFrom(_, _)
RecordsFrom(ep, k) ==
    IF k = 0 THEN <<>>
    ELSE RecordsFrom(ep, k - 1)
           \o (IF received[k].endpoint = ep /\ IsPage(received[k].outcome)
                 THEN PageItems(received[k].outcome) ELSE <<>>)

\* Every record the run fetched from endpoint ep.
FetchedFrom(ep) == RecordsFrom(ep, Len(received))

\* The last response received, when there is one.
LastOutcome == received[Len(received)].outcome

\* The call is between two requests: every request has been answered.
Idle == Len(received) = Len(requests) /\ inflight = {}

\* The file system is as it was before the run.
FsUntouched == [dirs |-> dirs, files |-> files] \in FileSystems

\* The run wrote its output document.
Exported == pc = "exited" /\ exitCode = Some(0)

----------------------------------------------------------------------------
(* Properties of fetch_paginated, called on its own (FetchSpec) *)

\* C1: when every page of the endpoint has status 200 and only the last one
\* has no `next`, a call that returns has issued exactly one request per
\* page, numbered 1..N and each to the URL the page before it named, and
\* returns the pages' records concatenated in page order.
C1_PagesConcatenated ==
    pc = "returned" /\ (\A k \in 1..Len(received) : IsPage(received[k].outcome)) =>
        /\ Len(received) >= 1
        /\ Len(requests) = Len(received)
        /\ \A k \in 1..Len(received) :
             /\ requests[k].page = k
             /\ received[k].url = requests[k].url
             /\ NextEmpty(received[k].outcome) <=> k = Len(received)
             /\ k > 1 => Some(requests[k].url) = received[k - 1].outcome.json.next
        /\ result = Some(FetchedFrom(endpoint))

\* Three pages holding 1, 2 and 0 records were fetched and returned.
C1_Witness ==
    /\ pc = "returned"
    /\ Len(received) = 3
    /\ Len(PageItems(received[1].outcome)) = 1
    /\ Len(PageItems(received[2].outcome)) = 2
    /\ Len(PageItems(received[3].outcome)) = 0
    /\ result = Some(<<"rec-1", "rec-1", "rec-2">>)

\* C10: within one call the first request goes to the base URL joined with
\* the endpoint name and carries the caller's query parameters; every later
\* request goes to the `next` URL of the response before it, with no query
\* parameters; every request carries the same bearer-token header.
C10_RequestUrls ==
    \A k \in 1..Len(requests) :
        /\ k = 1 => /\ requests[k].url = "https://app.getcensus.com/api/v1/" \o endpoint
                    /\ requests[k].params = params
        /\ k > 1 => /\ Some(requests[k].url) = received[k - 1].outcome.json.next
                    /\ requests[k].params = None
        /\ requests[k].headers.Authorization = "Bearer " \o api_key[1]

\* A call given query parameters has issued three requests.
C10_Witness ==
    /\ params # None
    /\ Len(requests) = 3
    /\ requests[2].url # requests[3].url

----------------------------------------------------------------------------
(* Properties of the script (Spec) *)

\* Some response so far had a status other than 200.
SawNon200 == \E i \in 1..Len(received) : IsNon200(received[i].outcome)

\* The list export_census_data keeps for an endpoint (None before the
\* endpoint's fetch returned).
Kept(ep) ==
    CASE ep = "syncs"        -> syncs
      [] ep = "sources"      -> sources
      [] ep = "destinations" -> destinations

\* C2: once a page response of any endpoint has a status other than 200 the
\* export is over: that response is the last one, no request follows it or is
\* outstanding, the fetch hands no records to its caller, the process has
\* exited with status 1, and the output directory and file are as they were.
C2_Non200Aborts ==
    SawNon200 =>
        /\ IsNon200(LastOutcome)
        /\ \A i \in 1..(Len(received) - 1) : ~IsNon200(received[i].outcome)
        /\ Len(requests) = Len(received)
        /\ inflight = {}
        /\ Kept(received[Len(received)].endpoint) = None
        /\ destinations = None
        /\ FsUntouched
        /\ pc = "exited"
        /\ exitCode = Some(1)

\* The second page of sources came back with status 500 and a JSON body,
\* with an earlier export at the output path.
C2_Witness ==
    /\ Len(received) = 3
    /\ received[3].endpoint = "sources"
    /\ received[3].page = 2
    /\ LastOutcome.status = 500
    /\ LastOutcome.json_ok
    /\ files[outputPath] = Some(OldDocument)
    /\ pc = "exited"

\* C3: every run that ends in an error (no API key, a status other than 200,
\* a transport failure, a body that is not JSON) has written a message to
\* the error stream and exits with a non-zero status; a run that completes
\* the export exits with status 0.
C3_ErrorsOnErrorStream ==
    pc = "exited" /\ hasRequests =>
        IF error = None /\ api_key \notin {None, Some("")}
          THEN exitCode = Some(0)
          ELSE exitCode # None /\ exitCode # Some(0) /\ stderr # <<>>

\* C4: the document written holds, as `connections`, the records fetched
\* from sources followed by the records fetched from destinations.
C4_ConnectionsConcatenated ==
    Exported =>
        /\ files[outputPath] # None
        /\ files[outputPath][1].connections
             = FetchedFrom("sources") \o FetchedFrom("destinations")
        /\ files[outputPath][1].syncs = FetchedFrom("syncs")

\* A document was written whose sources and destinations share a record.
C4_Witness ==
    /\ Exported
    /\ FetchedFrom("sources") = <<"rec-1", "rec-2">>
    /\ FetchedFrom("destinations") = <<"rec-1">>
    /\ files[outputPath][1].connections = <<"rec-1", "rec-2", "rec-1">>

\* C5: in the document written, syncCount is the length of `syncs`,
\* connectionCount the length of `connections` and the sum of sourceCount
\* and destinationCount, which are the numbers of records fetched from
\* sources and from destinations.
C5_MetadataCounts ==
    Exported =>
        LET doc == files[outputPath][1]
        IN  /\ doc.metadata.syncCount = Len(doc.syncs)
            /\ doc.metadata.connectionCount = Len(doc.connections)
            /\ doc.metadata.connectionCount
                 = doc.metadata.sourceCount + doc.metadata.destinationCount
            /\ doc.metadata.sourceCount = Len(FetchedFrom("sources"))
            /\ doc.metadata.destinationCount = Len(FetchedFrom("destinations"))

\* A document was written with 2 syncs, 1 source and 2 destinations.
C5_Witness ==
    /\ Exported
    /\ files[outputPath][1].metadata.syncCount = 2
    /\ files[outputPath][1].metadata.sourceCount = 1
    /\ files[outputPath][1].metadata.destinationCount = 2
    /\ files[outputPath][1].metadata.connectionCount = 3

\* The final page of endpoint ep was received before request number i.
FinalPageBefore(ep, i) ==
    \E j \in 1..Len(received) :
        /\ j < i
        /\ received[j].endpoint = ep
        /\ IsFinalPage(received[j].outcome)

\* C6: the endpoints are fetched one after the other in the order syncs,
\* sources, destinations: a request to sources follows the final page of
\* syncs, a request to destinations follows the final page of sources, at
\* most one request is outstanding, each request follows the response to the
\* one before it, and the file system is touched only after the final page
\* of destinations.
C6_SequentialOrder ==
    /\ Cardinality(inflight) <= 1
    /\ Len(requests) = Len(received) + Cardinality(inflight)
    /\ \A i \in 1..Len(requests) :
         /\ requests[i].endpoint \in {"syncs", "sources", "destinations"}
         /\ requests[i].endpoint = "sources" => FinalPageBefore("syncs", i)
         /\ requests[i].endpoint = "destinations" =>
              FinalPageBefore("syncs", i) /\ FinalPageBefore("sources", i)
         /\ requests[i].endpoint = "syncs" =>
              \A j \in 1..i : requests[j].endpoint = "syncs"
    /\ ~FsUntouched =>
         /\ FinalPageBefore("destinations", Len(received) + 1)
         /\ Idle

\* The output was written after one request to each endpoint.
C6_Witness ==
    /\ Exported
    /\ ~FsUntouched
    /\ Len(requests) = 3
    /\ requests[1].endpoint = "syncs"
    /\ requests[2].endpoint = "sources"
    /\ requests[3].endpoint = "destinations"

\* Neither the flag nor the environment variable gives a non-empty API key.
NoKeySupplied == argKey \in {None, Some("")} /\ envKey \in {None, Some("")}

\* C7: without an API key the run never issues an HTTP request and never
\* touches the output directory or file, and when it exits it exits with
\* status 1.
C7_NoKeyNoNetwork ==
    NoKeySupplied =>
        /\ requests = <<>>
        /\ inflight = {}
        /\ FsUntouched
        /\ pc \in {"import", "main", "exited"}
        /\ pc = "exited" => exitCode = Some(1)

\* A run given an empty --api-key and no environment variable has exited.
C7_Witness ==
    /\ argKey = Some("")
    /\ envKey = None
    /\ hasRequests
    /\ pc = "exited"
    /\ exitCode = Some(1)

\* C8: the error surfaced for a response depends on its status alone: 401
\* gives the authentication failure, 403 the permission failure, any other
\* status but 200 the API error with the status code and the raw body, and
\* 200 gives none of these.
C8_ErrorByStatus ==
    received # <<>> /\ LastOutcome.arrived /\ Idle =>
        LET status == LastOutcome.status
            wanted ==
              CASE status = 401 -> Some("Authentication failed. Check your API key.")
                [] status = 403 -> Some("Access forbidden. Your API key may not have permission for this endpoint.")
                [] status = 200 -> None
                [] OTHER -> Some("API request failed with status " \o ToString(status)
                                   \o ": " \o LastOutcome.text)
        IN  IF status = 200
              THEN error \in {None, Some("JSONDecodeError"),
                              Some("OSError: makedirs"), Some("OSError: open")}
              ELSE /\ error = wanted
                   /\ stderr = <<"\nError: " \o wanted[1]>>

\* A status 500 with body "body-B" surfaced as the API error naming both.
C8_Witness ==
    /\ received # <<>>
    /\ LastOutcome.status = 500
    /\ LastOutcome.text = "body-B"
    /\ error = Some("API request failed with status 500: body-B")
    /\ pc = "exited"

----------------------------------------------------------------------------
(* Termination of fetch_paginated (FairFetchSpec) *)

\* Some page's `next` names a URL the call has already requested: the
\* server's chain of `next` links has closed into a cycle.
Revisit ==
    \E i \in 1..Len(received) :
        /\ IsLinkPage(received[i].outcome)
        /\ \E j \in 1..i : Some(requests[j].url) = received[i].outcome.json.next

\* The call is at its loop test after a final page / after a page with a
\* `next` URL.
AfterFinalPage == pc = "loop" /\ received # <<>> /\ IsFinalPage(LastOutcome)

AfterLinkPage == pc = "loop" /\ received # <<>> /\ IsLinkPage(LastOutcome)

\* C9: the call returns only after a status-200 page whose `next` is absent
\* or empty, and after such a page it returns without another request;
\* after a status-200 page with a `next` URL its next step is one more
\* request, to that URL.  So a call whose responses all arrive ends unless
\* the `next` links close into a cycle, and a call caught in a cycle never
\* ends: it issues requests for as long as the model lets it.
C9_StopsOnEmptyNext ==
    /\ [](pc = "returned" => received # <<>> /\ IsFinalPage(LastOutcome) /\ Idle)
    /\ [](Revisit => pc \in {"loop", "await"})
    /\ [][AfterFinalPage => pc' = "returned" /\ requests' = requests]_vars
    /\ [][AfterLinkPage =>
            /\ pc' = "await"
            /\ Len(requests') = Len(requests) + 1
            /\ Some(requests'[Len(requests')].url) = LastOutcome.json.next]_vars
    /\ <>(pc \in {"returned", "raised"} \/ Revisit)
    /\ (Revisit ~> Len(requests) = MaxRequests)

\* A page named its own URL as `next`, and the call has requested it again.
C9_Witness ==
    /\ Revisit
    /\ pc = "await"
    /\ Len(requests) = 3
    /\ requests[3].url = requests[2].url

====
